---- MODULE Spec2Model ----
(***************************************************************************)
(* State-machine model of src/src/model.py: PlaylistManager (resolution of *)
(* the active playlist with its one-minute cache), Playlist (time window,  *)
(* priority, plugin list, traversal cursor) and PluginInstance (refresh    *)
(* policy).                                                                *)
(*                                                                         *)
(* Encoding of Python values                                               *)
(*   None            the empty tuple <<>>; a present value x is <<x>>      *)
(*                   wherever the code's field is "None or a value"        *)
(*   "HH:MM" string  the number HHMM written with the same digits:         *)
(*                   "08:30" is 830, "24:00" is 2400, "12:60" is 1260.     *)
(*                   Comparing two zero-padded strings with < is comparing *)
(*                   these numbers.                                        *)
(*   datetime        whole seconds since 00:00:00 of day 0                 *)
(*   datetime.time   the tuple <<hour, minute, second, microsecond>>       *)
(*   dict            a function; "k in d" is k \in DOMAIN d                *)
(*   object identity the id field of a Playlist record                     *)
(***************************************************************************)
EXTENDS Integers, Sequences, FiniteSets, TLC

VARIABLES
    playlists,               \* PlaylistManager.playlists / the Playlist under test
    _active_playlist_cache,  \* PlaylistManager._active_playlist_cache
    _cache_expiry,           \* PlaylistManager._cache_expiry
    op,                      \* name of the call that completed last
    arg,                     \* its arguments
    ret,                     \* its return value
    calculated,              \* whether it ran _calculate_active_playlist
    before,                  \* current_plugin_index as it was when a traversal call started
    threads                  \* position and locals of each thread; None while calls are
                             \* made one after another by a single caller

vars ==
    <<playlists, _active_playlist_cache, _cache_expiry, op, arg, ret, calculated, before, threads>>

----------------------------------------------------------------------------
(* Bounds of the model *)

MaxPlaylists == 2
MaxPlugins == 3

(* Program constants *)

DEFAULT_PLAYLIST_START == 0
DEFAULT_PLAYLIST_END == 2400

----------------------------------------------------------------------------
(* Python values *)

None == <<>>
Some(x) == <<x>>
EmptyDict == [k \in {} |-> None]
\* the outcome of a call that raised the exception e instead of returning
Raised(e) == <<"raise", e>>

\* str ordering of the playlist names used, as Python compares them
Names == <<"Alpha", "Beta", "Gamma">>
NameIndex(n) == CHOOSE i \in 1..Len(Names) : Names[i] = n
NameLT(a, b) == NameIndex(a) < NameIndex(b)

At(h, m, s) == h * 3600 + m * 60 + s
OneDay == 24 * 3600

\* datetime.strftime("%H:%M")
strftime_HM(dt) ==
    LET minute == (dt \div 60) % (24 * 60)
    IN  (minute \div 60) * 100 + (minute % 60)

\* datetime.strptime(s, "%H:%M") raises ValueError unless hour <= 23 and minute <= 59
strptime_ok(s) == s >= 0 /\ s \div 100 <= 23 /\ s % 100 <= 59
\* datetime.strptime(s, "%H:%M").time()
strptime_time(s) == <<s \div 100, s % 100, 0, 0>>
\* seconds of datetime.strptime(s, "%H:%M") after 1900-01-01 00:00
strptime_seconds(s) == (s \div 100) * 3600 + (s % 100) * 60

\* datetime.time comparison
TimeLT(a, b) == \E i \in 1..4 : a[i] < b[i] /\ \A j \in 1..(i - 1) : a[j] = b[j]
TimeLE(a, b) == a = b \/ TimeLT(a, b)

----------------------------------------------------------------------------
(* Playlist: window and priority *)

\* is_active with the end of a same-day window included
is_active_end_inclusive(p, current_time) ==
    IF \/ ~strptime_ok(current_time)
       \/ ~strptime_ok(p.start_time)
       \/ (p.end_time # 2400 /\ ~strptime_ok(p.end_time))
    THEN FALSE
    ELSE LET current_dt == strptime_time(current_time)
             start_dt == strptime_time(p.start_time)
             end_dt == IF p.end_time = 2400
                       THEN <<23, 59, 59, 999999>>
                       ELSE strptime_time(p.end_time)
         IN  IF TimeLT(end_dt, start_dt)
             THEN TimeLE(start_dt, current_dt) \/ TimeLT(current_dt, end_dt)
             ELSE TimeLE(start_dt, current_dt) /\ TimeLE(current_dt, end_dt)

\* is_active without the branch for windows that wrap midnight
is_active_same_day_only(p, current_time) ==
    IF \/ ~strptime_ok(current_time)
       \/ ~strptime_ok(p.start_time)
       \/ (p.end_time # 2400 /\ ~strptime_ok(p.end_time))
    THEN FALSE
    ELSE LET current_dt == strptime_time(current_time)
             start_dt == strptime_time(p.start_time)
             end_dt == IF p.end_time = 2400
                       THEN <<23, 59, 59, 999999>>
                       ELSE strptime_time(p.end_time)
         IN  TimeLE(start_dt, current_dt) /\ TimeLT(current_dt, end_dt)

\* is_active that reads "24:00" as 23:59
is_active_end_of_day_2359(p, current_time) ==
    IF \/ ~strptime_ok(current_time)
       \/ ~strptime_ok(p.start_time)
       \/ (p.end_time # 2400 /\ ~strptime_ok(p.end_time))
    THEN FALSE
    ELSE LET current_dt == strptime_time(current_time)
             start_dt == strptime_time(p.start_time)
             end_dt == IF p.end_time = 2400
                       THEN <<23, 59, 0, 0>>
                       ELSE strptime_time(p.end_time)
         IN  IF TimeLT(end_dt, start_dt)
             THEN TimeLE(start_dt, current_dt) \/ TimeLT(current_dt, end_dt)
             ELSE TimeLE(start_dt, current_dt) /\ TimeLT(current_dt, end_dt)

\* is_active that answers True where strptime raises ValueError
is_active_fail_open(p, current_time) ==
    IF \/ ~strptime_ok(current_time)
       \/ ~strptime_ok(p.start_time)
       \/ (p.end_time # 2400 /\ ~strptime_ok(p.end_time))
    THEN TRUE
    ELSE LET current_dt == strptime_time(current_time)
             start_dt == strptime_time(p.start_time)
             end_dt == IF p.end_time = 2400
                       THEN <<23, 59, 59, 999999>>
                       ELSE strptime_time(p.end_time)
         IN  IF TimeLT(end_dt, start_dt)
             THEN TimeLE(start_dt, current_dt) \/ TimeLT(current_dt, end_dt)
             ELSE TimeLE(start_dt, current_dt) /\ TimeLT(current_dt, end_dt)

is_active(p, current_time) ==
    IF \/ ~strptime_ok(current_time)
       \/ ~strptime_ok(p.start_time)
       \/ (p.end_time # 2400 /\ ~strptime_ok(p.end_time))
    THEN FALSE
    ELSE LET current_dt == strptime_time(current_time)
             start_dt == strptime_time(p.start_time)
             end_dt == IF p.end_time = 2400
                       THEN <<23, 59, 59, 999999>>
                       ELSE strptime_time(p.end_time)
         IN  IF TimeLT(end_dt, start_dt)
             THEN TimeLE(start_dt, current_dt) \/ TimeLT(current_dt, end_dt)
             ELSE TimeLE(start_dt, current_dt) /\ TimeLT(current_dt, end_dt)

\* get_time_range_minutes raises ValueError on an unparseable start or end
time_range_raises(p) ==
    ~strptime_ok(p.start_time) \/ (p.end_time # 2400 /\ ~strptime_ok(p.end_time))

get_time_range_minutes(p) ==
    LET start == strptime_seconds(p.start_time)
        end == IF p.end_time # 2400
               THEN strptime_seconds(p.end_time)
               ELSE strptime_seconds(0) + OneDay
    IN  (end - start) \div 60

get_priority(p) == get_time_range_minutes(p)

----------------------------------------------------------------------------
(* PlaylistManager: resolution *)

\* the sort key without the name: priority alone
KeyLT_priority_only(p, q) == get_priority(p) < get_priority(q)

\* tuple comparison of the sort key (p.get_priority(), p.name)
KeyLT(p, q) ==
    \/ get_priority(p) < get_priority(q)
    \/ (get_priority(p) = get_priority(q) /\ NameLT(p.name, q.name))

\* list.sort is stable: x goes behind every element whose key is not greater
RECURSIVE SortInsert(_, _)
SortInsert(x, s) ==
    IF s = <<>> THEN <<x>>
    ELSE IF KeyLT(x, Head(s)) THEN <<x>> \o s
    ELSE <<Head(s)>> \o SortInsert(x, Tail(s))

RECURSIVE sort_by_priority(_)
sort_by_priority(s) ==
    IF s = <<>> THEN <<>>
    ELSE SortInsert(s[Len(s)], sort_by_priority(SubSeq(s, 1, Len(s) - 1)))

_calculate_active_playlist(pls, current_datetime) ==
    IF pls = <<>> THEN None
    ELSE LET current_time == strftime_HM(current_datetime)
             active_playlists ==
                 SelectSeq(pls, LAMBDA p : is_active(p, current_time) /\ p.plugins # <<>>)
         IN  IF active_playlists = <<>> THEN None
             ELSE IF \E i \in 1..Len(active_playlists) : time_range_raises(active_playlists[i])
             THEN Some(active_playlists[1].id)
             ELSE Some(sort_by_priority(active_playlists)[1].id)

get_playlist_names == [i \in 1..Len(playlists) |-> playlists[i].name]

\* index of the playlist get_playlist returns, 0 when it returns None
get_playlist(playlist_name) ==
    IF \E i \in 1..Len(playlists) : playlists[i].name = playlist_name
    THEN CHOOSE i \in 1..Len(playlists) :
             /\ playlists[i].name = playlist_name
             /\ \A j \in 1..(i - 1) : playlists[j].name # playlist_name
    ELSE 0

\* the playlist object a reference denotes
Deref(id) == CHOOSE i \in 1..Len(playlists) : playlists[i].id = id

\* cache_hit with the expiry comparison turned round
cache_hit_expiry_reversed(current_datetime, cache_key) ==
    /\ _cache_expiry # None
    /\ current_datetime > _cache_expiry[1]
    /\ cache_key \in DOMAIN _active_playlist_cache

\* the test that answers from the cache
cache_hit(current_datetime, cache_key) ==
    /\ _cache_expiry # None
    /\ current_datetime < _cache_expiry[1]
    /\ cache_key \in DOMAIN _active_playlist_cache

determine_active_playlist(current_datetime) ==
    LET cache_key == strftime_HM(current_datetime)
        hit == cache_hit(current_datetime, cache_key)
        active_playlist == _calculate_active_playlist(playlists, current_datetime)
    IN  /\ op' = "determine_active_playlist"
        /\ arg' = current_datetime
        /\ IF hit
           THEN /\ ret' = _active_playlist_cache[cache_key]
                /\ calculated' = FALSE
                /\ UNCHANGED <<_active_playlist_cache, _cache_expiry>>
           ELSE /\ ret' = active_playlist
                /\ calculated' = TRUE
                /\ _active_playlist_cache' = [k \in {cache_key} |-> active_playlist]
                /\ _cache_expiry' = Some(current_datetime + 60)
        /\ before' = None
        /\ UNCHANGED threads
        /\ UNCHANGED playlists

\* determine_active_playlist(value) for a value without a strftime attribute
\* (None, a str): the first test returns None before the cache is looked at
determine_active_playlist_rejected(value) ==
    /\ op' = "determine_active_playlist(not a datetime)"
    /\ arg' = value
    /\ ret' = None
    /\ calculated' = FALSE
    /\ before' = None
    /\ UNCHANGED threads
    /\ UNCHANGED <<playlists, _active_playlist_cache, _cache_expiry>>

\* determine_active_playlist(t) for a datetime.time t: it has strftime, so the
\* first test lets it through.  With an expiry set, t < _cache_expiry raises
\* TypeError; with none, the playlist is computed and stored in the cache, and
\* then t + timedelta(minutes=1) raises TypeError before _cache_expiry is set.
determine_active_playlist_time(t) ==
    LET cache_key == t[1] * 100 + t[2]
        active_playlist == _calculate_active_playlist(playlists, At(t[1], t[2], t[3]))
    IN  /\ op' = "determine_active_playlist(not a datetime)"
        /\ arg' = t
        /\ ret' = Raised("TypeError")
        /\ IF _cache_expiry # None
           THEN /\ calculated' = FALSE
                /\ UNCHANGED _active_playlist_cache
           ELSE /\ calculated' = TRUE
                /\ _active_playlist_cache' = [k \in {cache_key} |-> active_playlist]
        /\ before' = None
        /\ UNCHANGED threads
        /\ UNCHANGED <<playlists, _cache_expiry>>

invalidate_cache ==
    /\ _active_playlist_cache' = EmptyDict
    /\ _cache_expiry' = None

----------------------------------------------------------------------------
(* PluginInstance and Playlist: construction and editing *)

PluginInstance_from_dict(data) ==
    [plugin_id |-> data.plugin_id,
     name |-> data.name,
     settings |-> data.plugin_settings,
     refresh |-> data.refresh,
     latest_refresh_time |-> IF "latest_refresh_time" \in DOMAIN data
                             THEN data.latest_refresh_time
                             ELSE None]

\* PluginInstance.update: setattr for every key of updated_data
PluginInstance_update(plugin, updated_data) ==
    [k \in DOMAIN plugin \cup DOMAIN updated_data |->
        IF k \in DOMAIN updated_data THEN updated_data[k] ELSE plugin[k]]

\* Playlist(name, start_time, end_time): no plugins, no cursor
Playlist(id, name, start_time, end_time) ==
    [id |-> id, name |-> name, start_time |-> start_time, end_time |-> end_time,
     plugins |-> <<>>, current_plugin_index |-> None]

\* index of the plugin find_plugin returns, 0 when it returns None
find_plugin(p, plugin_id, name) ==
    LET match(i) == p.plugins[i].plugin_id = plugin_id /\ p.plugins[i].name = name
    IN  IF \E i \in 1..Len(p.plugins) : match(i)
        THEN CHOOSE i \in 1..Len(p.plugins) : match(i) /\ \A j \in 1..(i - 1) : ~match(j)
        ELSE 0

\* Each Playlist method below gives the value returned and the playlist afterwards.

add_plugin(p, plugin_data) ==
    IF find_plugin(p, plugin_data.plugin_id, plugin_data.name) # 0
    THEN [ret |-> FALSE, self |-> p]
    ELSE [ret |-> TRUE,
          self |-> [p EXCEPT !.plugins = Append(@, PluginInstance_from_dict(plugin_data))]]

update_plugin(p, plugin_id, instance_name, updated_data) ==
    LET i == find_plugin(p, plugin_id, instance_name)
    IN  IF i # 0
        THEN [ret |-> TRUE,
              self |-> [p EXCEPT !.plugins[i] = PluginInstance_update(@, updated_data)]]
        ELSE [ret |-> FALSE, self |-> p]

delete_plugin(p, plugin_id, name) ==
    LET initial_count == Len(p.plugins)
        kept == SelectSeq(p.plugins, LAMBDA q : ~(q.plugin_id = plugin_id /\ q.name = name))
    IN  [ret |-> Len(kept) # initial_count, self |-> [p EXCEPT !.plugins = kept]]

----------------------------------------------------------------------------
(* PluginInstance: refresh policy.  latest_refresh_time holds the ISO text *)
(* of a datetime, which fromisoformat reads back as that datetime.         *)

get_latest_refresh_dt(plugin) == plugin.latest_refresh_time

\* datetime.date() as a day number, datetime.time()
date_of(dt) == dt \div OneDay
time_of(dt) ==
    LET second == dt % OneDay
    IN  <<second \div 3600, (second % 3600) \div 60, second % 60, 0>>

\* should_refresh that goes on to the policy when no refresh is recorded
should_refresh_needs_record(plugin, current_time) ==
    LET latest_refresh_dt == get_latest_refresh_dt(plugin)
        refresh == plugin.refresh
    IN  /\ latest_refresh_dt # None
        /\ \/ /\ "interval" \in DOMAIN refresh
              /\ refresh.interval # 0
              /\ current_time - latest_refresh_dt[1] >= refresh.interval
           \/ /\ "scheduled" \in DOMAIN refresh
              /\ strftime_HM(latest_refresh_dt[1]) < refresh.scheduled

should_refresh(plugin, current_time) ==
    LET latest_refresh_dt == get_latest_refresh_dt(plugin)
    IN  IF latest_refresh_dt = None THEN TRUE
        ELSE LET latest == latest_refresh_dt[1]
                 refresh == plugin.refresh
             IN  \/ /\ "interval" \in DOMAIN refresh
                    /\ refresh.interval # 0
                    /\ current_time - latest >= refresh.interval
                 \/ /\ "scheduled" \in DOMAIN refresh
                    /\ strftime_HM(latest) < refresh.scheduled
                 \/ /\ "scheduled" \in DOMAIN refresh
                    /\ LET scheduled_time == strptime_time(refresh.scheduled)
                       IN  \/ /\ date_of(latest) < date_of(current_time)
                              /\ TimeLE(scheduled_time, time_of(current_time))
                           \/ /\ date_of(latest) = date_of(current_time)
                              /\ TimeLT(time_of(latest), scheduled_time)
                              /\ TimeLE(scheduled_time, time_of(current_time))

\* PlaylistManager.should_refresh (static): latest_refresh is None or a datetime
PlaylistManager_should_refresh(latest_refresh, interval_seconds, current_time) ==
    IF latest_refresh = None THEN TRUE
    ELSE current_time - latest_refresh[1] >= interval_seconds

----------------------------------------------------------------------------
(* Playlist: traversal.  current_plugin_index and the plugin returned are  *)
(* Python list indices, counted from 0.                                    *)

\* get_next_plugin: the cursor is set to 0 before plugins[0] is read, so on an
\* empty list the IndexError leaves it at 0; with a cursor, the modulo by
\* len(plugins) = 0 raises before anything is assigned
get_next_plugin(p) ==
    LET n == Len(p.plugins)
    IN  IF p.current_plugin_index = None
        THEN [ret |-> IF n = 0 THEN Raised("IndexError") ELSE Some(0),
              self |-> [p EXCEPT !.current_plugin_index = Some(0)]]
        ELSE IF n = 0 THEN [ret |-> Raised("ZeroDivisionError"), self |-> p]
        ELSE LET index == (p.current_plugin_index[1] + 1) % n
             IN  [ret |-> Some(index), self |-> [p EXCEPT !.current_plugin_index = Some(index)]]

\* find_plugin_to_refresh that moves the cursor on even when nothing is due
find_plugin_to_refresh_advancing(p, current_dt, global_should_refresh) ==
    LET n == Len(p.plugins)
        index == IF p.current_plugin_index = None THEN 0
                 ELSE (p.current_plugin_index[1] + 1) % n
    IN  IF n = 0 THEN [ret |-> None, self |-> p]
        ELSE IF should_refresh(p.plugins[index + 1], current_dt) \/ global_should_refresh
        THEN [ret |-> Some(index), self |-> [p EXCEPT !.current_plugin_index = Some(index)]]
        ELSE [ret |-> None, self |-> [p EXCEPT !.current_plugin_index = Some(index)]]

\* find_plugin_to_refresh whose scan always starts at the first plugin
find_plugin_to_refresh_from_first(p, current_dt, global_should_refresh) ==
    LET n == Len(p.plugins)
        needs(index) == should_refresh(p.plugins[index + 1], current_dt) \/ global_should_refresh
        cursor == p.current_plugin_index
        found == {i \in 0..(n - 1) : needs(i)}
    IN  IF n = 0 THEN [ret |-> None, self |-> p]
        ELSE IF cursor # None /\ 0 <= cursor[1] /\ cursor[1] < n /\ needs(cursor[1])
        THEN [ret |-> Some(cursor[1]), self |-> p]
        ELSE IF found = {} THEN [ret |-> None, self |-> p]
        ELSE LET index == CHOOSE i \in found : \A j \in found : i <= j
             IN  [ret |-> Some(index), self |-> [p EXCEPT !.current_plugin_index = Some(index)]]

\* find_plugin_to_refresh without the test of the plugin at the cursor
find_plugin_to_refresh_scan_only(p, current_dt, global_should_refresh) ==
    LET n == Len(p.plugins)
        needs(index) == should_refresh(p.plugins[index + 1], current_dt) \/ global_should_refresh
        cursor == p.current_plugin_index
        start_index == IF cursor # None THEN cursor[1] + 1 ELSE 0
        found == {i \in 0..(n - 1) : needs((start_index + i) % n)}
    IN  IF n = 0 \/ found = {} THEN [ret |-> None, self |-> p]
        ELSE LET i == CHOOSE i \in found : \A j \in found : i <= j
                 index == (start_index + i) % n
             IN  [ret |-> Some(index), self |-> [p EXCEPT !.current_plugin_index = Some(index)]]

find_plugin_to_refresh(p, current_dt, global_should_refresh) ==
    LET n == Len(p.plugins)
        needs(index) == should_refresh(p.plugins[index + 1], current_dt) \/ global_should_refresh
        cursor == p.current_plugin_index
        start_index == IF cursor # None THEN cursor[1] + 1 ELSE 0
        found == {i \in 0..(n - 1) : needs((start_index + i) % n)}
    IN  IF n = 0 THEN [ret |-> None, self |-> p]
        ELSE IF cursor # None /\ 0 <= cursor[1] /\ cursor[1] < n /\ needs(cursor[1])
        THEN [ret |-> Some(cursor[1]), self |-> p]
        ELSE IF found = {} THEN [ret |-> None, self |-> p]
        ELSE LET i == CHOOSE i \in found : \A j \in found : i <= j
                 index == (start_index + i) % n
             IN  [ret |-> Some(index), self |-> [p EXCEPT !.current_plugin_index = Some(index)]]

\* the indices of the plugins whose should_refresh find_plugin_to_refresh
\* calls, in the order of the calls: the plugin at a valid cursor first, then,
\* unless that one qualified, (cursor+1) mod n, (cursor+2) mod n, ... up to
\* the first that qualifies
should_refresh_calls(p, current_dt, global_should_refresh) ==
    LET n == Len(p.plugins)
        needs(index) == should_refresh(p.plugins[index + 1], current_dt) \/ global_should_refresh
        cursor == p.current_plugin_index
        at_cursor == IF cursor # None /\ 0 <= cursor[1] /\ cursor[1] < n
                     THEN <<cursor[1]>> ELSE <<>>
        start_index == IF cursor # None THEN cursor[1] + 1 ELSE 0
        found == {i \in 0..(n - 1) : needs((start_index + i) % n)}
        last == IF found = {} THEN n - 1 ELSE CHOOSE i \in found : \A j \in found : i <= j
    IN  IF n = 0 THEN <<>>
        ELSE IF at_cursor # <<>> /\ needs(cursor[1]) THEN at_cursor
        ELSE at_cursor \o [k \in 1..(last + 1) |-> (start_index + k - 1) % n]

----------------------------------------------------------------------------
(* Inputs of the manager's operations *)

NameArgs == {"Alpha", "Beta"}

\* a same-day window that ends one minute after noon, and one that wraps midnight
WindowArgs == {<<1000, 1201>>, <<1100, 600>>}

Instants == {At(12, 0, 0), At(12, 0, 30), At(12, 1, 0), OneDay + At(12, 0, 0)}

PluginIds == {"clock"}
InstanceNames == {"A"}
PluginDataArgs ==
    {[plugin_id |-> i, name |-> n, plugin_settings |-> "s0", refresh |-> [interval |-> 3600]] :
        i \in PluginIds, n \in InstanceNames}
UpdatedDataArgs == {[settings |-> "s0"]}

----------------------------------------------------------------------------
(* PlaylistManager: editing.  Playlist objects are numbered as they are    *)
(* created; a number is free again once its playlist has been deleted.     *)

NewId ==
    CHOOSE id \in 1..MaxPlaylists :
        /\ \A i \in 1..Len(playlists) : playlists[i].id # id
        /\ \A smaller \in 1..(id - 1) : \E i \in 1..Len(playlists) : playlists[i].id = smaller

add_playlist(name, start_time, end_time) ==
    LET start == IF start_time = None THEN DEFAULT_PLAYLIST_START ELSE start_time[1]
        end == IF end_time = None THEN DEFAULT_PLAYLIST_END ELSE end_time[1]
    IN  /\ Len(playlists) < MaxPlaylists
        /\ playlists' = Append(playlists, Playlist(NewId, name, start, end))
        /\ invalidate_cache
        /\ op' = "add_playlist"
        /\ arg' = None
        /\ ret' = Some(TRUE)
        /\ calculated' = FALSE
        /\ before' = None
        /\ UNCHANGED threads

update_playlist(old_name, new_name, start_time, end_time) ==
    LET i == get_playlist(old_name)
    IN  /\ IF i # 0
           THEN /\ playlists' = [playlists EXCEPT ![i].name = new_name,
                                                  ![i].start_time = start_time,
                                                  ![i].end_time = end_time]
                /\ invalidate_cache
                /\ ret' = Some(TRUE)
           ELSE /\ UNCHANGED <<playlists, _active_playlist_cache, _cache_expiry>>
                /\ ret' = Some(FALSE)
        /\ op' = "update_playlist"
        /\ arg' = None
        /\ calculated' = FALSE
        /\ before' = None
        /\ UNCHANGED threads

delete_playlist(name) ==
    /\ playlists' = SelectSeq(playlists, LAMBDA p : p.name # name)
    /\ invalidate_cache
    /\ op' = "delete_playlist"
    /\ arg' = None
    /\ ret' = None
    /\ calculated' = FALSE
    /\ before' = None
    /\ UNCHANGED threads

add_plugin_to_playlist(playlist_name, plugin_data) ==
    LET i == get_playlist(playlist_name)
        added == add_plugin(playlists[i], plugin_data)
    IN  /\ i # 0 => Len(playlists[i].plugins) < MaxPlugins
        /\ IF i # 0 /\ added.ret
           THEN /\ playlists' = [playlists EXCEPT ![i] = added.self]
                /\ invalidate_cache
                /\ ret' = Some(TRUE)
           ELSE /\ UNCHANGED <<playlists, _active_playlist_cache, _cache_expiry>>
                /\ ret' = Some(FALSE)
        /\ op' = "add_plugin_to_playlist"
        /\ arg' = None
        /\ calculated' = FALSE
        /\ before' = None
        /\ UNCHANGED threads

\* playlist.update_plugin(...) on the i-th playlist of the manager
Playlist_update_plugin(i, plugin_id, instance_name, updated_data) ==
    LET done == update_plugin(playlists[i], plugin_id, instance_name, updated_data)
    IN  /\ playlists' = [playlists EXCEPT ![i] = done.self]
        /\ op' = "update_plugin"
        /\ arg' = None
        /\ ret' = Some(done.ret)
        /\ calculated' = FALSE
        /\ before' = None
        /\ UNCHANGED threads
        /\ UNCHANGED <<_active_playlist_cache, _cache_expiry>>

\* playlist.delete_plugin(...) on the i-th playlist of the manager
Playlist_delete_plugin(i, plugin_id, name) ==
    LET done == delete_plugin(playlists[i], plugin_id, name)
    IN  /\ playlists' = [playlists EXCEPT ![i] = done.self]
        /\ op' = "delete_plugin"
        /\ arg' = None
        /\ ret' = Some(done.ret)
        /\ calculated' = FALSE
        /\ before' = None
        /\ UNCHANGED threads
        /\ UNCHANGED <<_active_playlist_cache, _cache_expiry>>

----------------------------------------------------------------------------
(* The manager: PlaylistManager() followed by any calls *)

Init ==
    /\ playlists = <<>>
    /\ _active_playlist_cache = EmptyDict
    /\ _cache_expiry = None
    /\ op = "__init__"
    /\ arg = None
    /\ ret = None
    /\ calculated = FALSE
    /\ before = None
    /\ threads = None

Resolve == \E t \in Instants : determine_active_playlist(t)

AddPlaylist ==
    \E n \in NameArgs, w \in {<<None, None>>} \cup {<<Some(x[1]), Some(x[2])>> : x \in WindowArgs} :
        add_playlist(n, w[1], w[2])

UpdatePlaylist == \E o \in NameArgs, n \in NameArgs, w \in WindowArgs : update_playlist(o, n, w[1], w[2])

DeletePlaylist == \E n \in NameArgs : delete_playlist(n)

AddPlugin == \E n \in NameArgs, d \in PluginDataArgs : add_plugin_to_playlist(n, d)

UpdatePlugin ==
    \E i \in 1..Len(playlists), id \in PluginIds, n \in InstanceNames, d \in UpdatedDataArgs :
        Playlist_update_plugin(i, id, n, d)

DeletePlugin ==
    \E i \in 1..Len(playlists), id \in PluginIds, n \in InstanceNames :
        Playlist_delete_plugin(i, id, n)

Next ==
    \/ Resolve
    \/ AddPlaylist
    \/ UpdatePlaylist
    \/ DeletePlaylist
    \/ AddPlugin
    \/ UpdatePlugin
    \/ DeletePlugin

Spec == Init /\ [][Next]_vars

----------------------------------------------------------------------------
(* One playlist on its own: the playlist add_default_playlist creates,     *)
(* followed by any calls of its methods.                                   *)

UnitNames == {"A", "B", "C", "D"}
RefreshArgs == {[interval |-> 3600], [scheduled |-> 1200]}

\* plugins as saved: never refreshed, or last refreshed at 12:15 of day 0
UnitDataArgs ==
    {[plugin_id |-> "clock", name |-> n, plugin_settings |-> "s0", refresh |-> r] :
        n \in UnitNames, r \in RefreshArgs}
    \cup
    {[plugin_id |-> "clock", name |-> n, plugin_settings |-> "s0", refresh |-> r,
      latest_refresh_time |-> Some(At(12, 15, 0))] :
        n \in UnitNames, r \in RefreshArgs}

\* a refresh recorded at 12:15 of day 0
UnitUpdateArgs == {[latest_refresh_time |-> Some(At(12, 15, 0))]}

\* a quarter of an hour and an hour and a quarter after that refresh, and a day later
PollInstants == {At(12, 30, 0), At(13, 30, 0), OneDay + At(12, 30, 0)}

\* playlist.add_plugin(plugin_data) on the i-th playlist
Playlist_add_plugin(i, plugin_data) ==
    LET done == add_plugin(playlists[i], plugin_data)
    IN  /\ Len(playlists[i].plugins) < MaxPlugins
        /\ playlists' = [playlists EXCEPT ![i] = done.self]
        /\ op' = "add_plugin"
        /\ arg' = None
        /\ ret' = Some(done.ret)
        /\ calculated' = FALSE
        /\ before' = None
        /\ UNCHANGED threads
        /\ UNCHANGED <<_active_playlist_cache, _cache_expiry>>

\* playlist.find_plugin_to_refresh(current_dt, global_should_refresh) on the i-th playlist
Playlist_find_plugin_to_refresh(i, current_dt, global_should_refresh) ==
    LET done == find_plugin_to_refresh(playlists[i], current_dt, global_should_refresh)
    IN  /\ playlists' = [playlists EXCEPT ![i] = done.self]
        /\ op' = "find_plugin_to_refresh"
        /\ arg' = [playlist |-> i, current_dt |-> current_dt,
                   global_should_refresh |-> global_should_refresh]
        /\ ret' = done.ret
        /\ calculated' = FALSE
        /\ before' = playlists[i].current_plugin_index
        /\ UNCHANGED threads
        /\ UNCHANGED <<_active_playlist_cache, _cache_expiry>>

InitPlaylist ==
    /\ playlists = <<Playlist(1, "Default", DEFAULT_PLAYLIST_START, DEFAULT_PLAYLIST_END)>>
    /\ _active_playlist_cache = EmptyDict
    /\ _cache_expiry = None
    /\ op = "__init__"
    /\ arg = None
    /\ ret = None
    /\ calculated = FALSE
    /\ before = None
    /\ threads = None

AddUnit == \E d \in UnitDataArgs : Playlist_add_plugin(1, d)

UpdateUnit == \E n \in UnitNames, d \in UnitUpdateArgs : Playlist_update_plugin(1, "clock", n, d)

DeleteUnit == \E n \in UnitNames : Playlist_delete_plugin(1, "clock", n)

FindPluginToRefresh ==
    \E t \in PollInstants, g \in BOOLEAN : Playlist_find_plugin_to_refresh(1, t, g)

NextPlaylist ==
    \/ AddUnit
    \/ UpdateUnit
    \/ DeleteUnit
    \/ FindPluginToRefresh

SpecPlaylist == InitPlaylist /\ [][NextPlaylist]_vars

----------------------------------------------------------------------------
(* Properties of resolution and of the cache, checked under Spec *)

MutatingOps ==
    {"add_playlist", "update_playlist", "delete_playlist",
     "add_plugin_to_playlist", "update_plugin", "delete_plugin"}

\* the playlist a returned reference denotes
Returned == playlists[Deref(ret[1])]

\* playlists that are window-active at datetime t and hold at least one plugin
Qualifying(t) ==
    {i \in 1..Len(playlists) :
        is_active(playlists[i], strftime_HM(t)) /\ playlists[i].plugins # <<>>}

MinuteOfDay(s) == (s \div 100) * 60 + (s % 100)

\* minutes of the day a well-formed window covers
WindowMinutes(p) ==
    LET start == MinuteOfDay(p.start_time)
        end == MinuteOfDay(p.end_time)
    IN  IF start <= end THEN end - start ELSE (24 * 60 - start) + end

\* C1: when two or more playlists with plugins are window-active at the time
\* asked about, determine_active_playlist returns one whose window covers the
\* fewest minutes of the day, whatever the shape of the windows.
C1_NarrowestWindowWins ==
    (op = "determine_active_playlist" /\ Cardinality(Qualifying(arg)) >= 2) =>
        /\ ret # None
        /\ \A i \in Qualifying(arg) : WindowMinutes(Returned) <= WindowMinutes(playlists[i])

\* C2: after each of the six mutating operations, successful or not, the
\* cache is empty and its expiry is unset.
C2_MutationInvalidatesCache ==
    op \in MutatingOps => (DOMAIN _active_playlist_cache = {} /\ _cache_expiry = None)

\* C3: determine_active_playlist returns what the uncached computation
\* returns on the current configuration.
C3_CacheNeverChangesAnswer ==
    op = "determine_active_playlist" => ret = _calculate_active_playlist(playlists, arg)

\* C4: determine_active_playlist never returns a playlist that has no plugins.
C4_NeverReturnsEmptyPlaylist ==
    (op = "determine_active_playlist" /\ ret # None) => Returned.plugins # <<>>

\* C5: a determine_active_playlist call that directly follows another one, at
\* the same "HH:MM" and earlier than the first call's time plus one minute,
\* returns the same playlist and does not run _calculate_active_playlist.
C5_RepeatedCallAnsweredFromCache ==
    [][(/\ op = "determine_active_playlist"
        /\ op' = "determine_active_playlist"
        /\ strftime_HM(arg') = strftime_HM(arg)
        /\ arg' < arg + 60)
       => (ret' = ret /\ ~calculated')]_vars

\* a second call within the minute was answered from the cache with a playlist
C5_Witness ==
    /\ op = "determine_active_playlist"
    /\ ~calculated
    /\ ret # None
    /\ arg = At(12, 0, 30)

----------------------------------------------------------------------------
(* Properties of find_plugin_to_refresh, checked under SpecPlaylist *)

\* the playlist the last traversal call was made on, and the call's inputs
Polled == playlists[arg.playlist]
Needs(plugin) == should_refresh(plugin, arg.current_dt) \/ arg.global_should_refresh

\* the cursor the call started with was a valid index of a plugin that qualified
CursorQualified ==
    /\ before # None
    /\ 0 <= before[1]
    /\ before[1] < Len(Polled.plugins)
    /\ Needs(Polled.plugins[before[1] + 1])

\* the k-th index the scan visits, k = 1, 2, ...: (cursor + k) mod size, and
\* k - 1 when the call started with no cursor
Visit(k) ==
    IF before = None THEN k - 1 ELSE (before[1] + k) % Len(Polled.plugins)

\* C6: find_plugin_to_refresh returns None exactly when the playlist is empty
\* or no plugin is due and the global override is false, and whenever it
\* returns None current_plugin_index is what it was before the call.
C6_NoneIffNothingDueAndCursorKept ==
    op = "find_plugin_to_refresh" =>
        /\ (ret = None) <=>
               \/ Polled.plugins = <<>>
               \/ /\ ~arg.global_should_refresh
                  /\ \A k \in 1..Len(Polled.plugins) :
                         ~should_refresh(Polled.plugins[k], arg.current_dt)
        /\ (ret = None) => Polled.current_plugin_index = before

\* a poll of three plugins, none due, the cursor on the second one
C6_Witness ==
    /\ op = "find_plugin_to_refresh"
    /\ ret = None
    /\ Len(Polled.plugins) = 3
    /\ before = Some(1)
    /\ Polled.current_plugin_index = Some(1)

\* C7: when the cursor is unset or the plugin at the cursor does not qualify,
\* find_plugin_to_refresh returns the first plugin, in the order
\* (cursor+1) mod size, (cursor+2) mod size, ... (0, 1, ... with no cursor),
\* that is due or covered by the global override, and sets
\* current_plugin_index to its index.
C7_ScanReturnsFirstDueAfterCursor ==
    (/\ op = "find_plugin_to_refresh"
     /\ ~CursorQualified
     /\ \E k \in 1..Len(Polled.plugins) : Needs(Polled.plugins[k]))
    => LET n == Len(Polled.plugins)
           first == CHOOSE k \in 1..n :
                        /\ Needs(Polled.plugins[Visit(k) + 1])
                        /\ \A j \in 1..(k - 1) : ~Needs(Polled.plugins[Visit(j) + 1])
       IN  /\ ret = Some(Visit(first))
           /\ Polled.current_plugin_index = Some(Visit(first))

\* the cursor was on the second of three plugins, which was not due; the scan
\* went on to the third and returned it although the first was due as well
C7_Witness ==
    /\ op = "find_plugin_to_refresh"
    /\ ~arg.global_should_refresh
    /\ Len(Polled.plugins) = 3
    /\ before = Some(1)
    /\ should_refresh(Polled.plugins[1], arg.current_dt)
    /\ ~should_refresh(Polled.plugins[2], arg.current_dt)
    /\ should_refresh(Polled.plugins[3], arg.current_dt)
    /\ ret = Some(2)

\* the playlist as it was when the call started: only the cursor can differ
PolledBefore == [Polled EXCEPT !.current_plugin_index = before]

\* C22: when the cursor is a valid index and the plugin at the cursor is due
\* or the global override is true, find_plugin_to_refresh returns that plugin,
\* calls should_refresh on no other plugin, and leaves current_plugin_index
\* as it was.
C22_CursorUnitServedFirst ==
    (op = "find_plugin_to_refresh" /\ CursorQualified) =>
        /\ ret = before
        /\ Polled.current_plugin_index = before
        /\ should_refresh_calls(PolledBefore, arg.current_dt, arg.global_should_refresh)
               = <<before[1]>>

\* the cursor was on the second of three plugins, the second and the third
\* were due, and the call returned the second
C22_Witness ==
    /\ op = "find_plugin_to_refresh"
    /\ ~arg.global_should_refresh
    /\ Len(Polled.plugins) = 3
    /\ before = Some(1)
    /\ should_refresh(Polled.plugins[2], arg.current_dt)
    /\ should_refresh(Polled.plugins[3], arg.current_dt)
    /\ ret = Some(1)
    /\ Polled.current_plugin_index = Some(1)

----------------------------------------------------------------------------
(* is_active on its own: a playlist constructed with a window and a time   *)
(* of day to ask it about (held in arg until the call is made).           *)

StartArgs == {0, 1, 800, 1159, 1200, 1201, 2200, 2359}
EndArgs == {0, 1, 600, 1200, 1201, 2000, 2359, 2400}

\* "00:00" .. "23:59"
MinutesOfDay == {h * 100 + m : h \in 0..23, m \in 0..59}

\* playlist.is_active(current_time) on the i-th playlist
Playlist_is_active(i, current_time) ==
    /\ op' = "is_active"
    /\ arg' = current_time
    /\ ret' = Some(is_active(playlists[i], current_time))
    /\ calculated' = FALSE
    /\ before' = None
    /\ UNCHANGED threads
    /\ UNCHANGED <<playlists, _active_playlist_cache, _cache_expiry>>

InitActive ==
    /\ \E s \in StartArgs, e \in EndArgs : playlists = <<Playlist(1, "Alpha", s, e)>>
    /\ _active_playlist_cache = EmptyDict
    /\ _cache_expiry = None
    /\ op = "__init__"
    /\ arg \in MinutesOfDay
    /\ ret = None
    /\ calculated = FALSE
    /\ before = None
    /\ threads = None

IsActive == op = "__init__" /\ Playlist_is_active(1, arg)

NextActive == IsActive

SpecActive == InitActive /\ [][NextActive]_vars

----------------------------------------------------------------------------
(* Properties of is_active, checked under SpecActive *)

Asked == playlists[1]

\* C8: for a window with start < end, the end not "24:00", is_active(t) is
\* true iff start <= t < end: the start is inside, the end is outside.
C8_SameDayWindowHalfOpen ==
    (/\ op = "is_active"
     /\ Asked.end_time # 2400
     /\ MinuteOfDay(Asked.start_time) < MinuteOfDay(Asked.end_time))
    => ret = Some(/\ MinuteOfDay(Asked.start_time) <= MinuteOfDay(arg)
                  /\ MinuteOfDay(arg) < MinuteOfDay(Asked.end_time))

\* a same-day window asked about its end answers false
C8_Witness ==
    /\ op = "is_active"
    /\ Asked.start_time = 800
    /\ Asked.end_time = 1200
    /\ arg = 1200
    /\ ret = Some(FALSE)

\* C9: for a window with start > end, is_active(t) is true iff t >= start or
\* t < end.
C9_WrappingWindow ==
    (/\ op = "is_active"
     /\ MinuteOfDay(Asked.start_time) > MinuteOfDay(Asked.end_time))
    => ret = Some(\/ MinuteOfDay(arg) >= MinuteOfDay(Asked.start_time)
                  \/ MinuteOfDay(arg) < MinuteOfDay(Asked.end_time))

\* 22:00 to 06:00 asked about 02:00 answers true
C9_Witness ==
    /\ op = "is_active"
    /\ Asked.start_time = 2200
    /\ Asked.end_time = 600
    /\ arg = 200
    /\ ret = Some(TRUE)

\* C10: a window that ends at "24:00" is active at every minute from its start
\* on, 23:59 included.
C10_EndOfDayWindow ==
    (/\ op = "is_active"
     /\ Asked.end_time = 2400
     /\ MinuteOfDay(arg) >= MinuteOfDay(Asked.start_time))
    => ret = Some(TRUE)

\* the default window 00:00 to 24:00 asked about 23:59 answers true
C10_Witness ==
    /\ op = "is_active"
    /\ Asked.start_time = DEFAULT_PLAYLIST_START
    /\ Asked.end_time = DEFAULT_PLAYLIST_END
    /\ arg = 2359
    /\ ret = Some(TRUE)

----------------------------------------------------------------------------
(* Resolution on its own: a manager holding any list of playlists, their   *)
(* windows well-formed or not, asked once; the question may be followed by *)
(* a call that passes something that is no datetime.                       *)

ResolveNames == {"Alpha", "Beta"}

\* the windows of WindowArgs, the default window, "25:00"-"12:01" and "10:00"-"12:60"
ResolveWindows ==
    WindowArgs \cup {<<DEFAULT_PLAYLIST_START, DEFAULT_PLAYLIST_END>>, <<2500, 1201>>, <<1000, 1260>>}

ResolveInstants == {At(12, 0, 0), At(12, 1, 0)}

\* "12:00", "25:00", "12:60" and a text without digits
QueryTimes == {1200, 2500, 1260, -1}

\* None and the str "not a datetime"
NotDatetimes == {None, Some("not a datetime")}

\* datetime.time(12, 0)
TimesOfDay == {<<12, 0, 0, 0>>}

ResolvePlaylists ==
    {[name |-> n, start_time |-> w[1], end_time |-> w[2], plugins |-> u] :
        n \in ResolveNames, w \in ResolveWindows,
        u \in {<<>>} \cup {<<PluginInstance_from_dict(d)>> : d \in PluginDataArgs}}

InitResolve ==
    /\ \E n \in 0..MaxPlaylists : \E made \in [1..n -> ResolvePlaylists] :
           playlists =
               [k \in 1..n |->
                   [Playlist(k, made[k].name, made[k].start_time, made[k].end_time)
                       EXCEPT !.plugins = made[k].plugins]]
    /\ _active_playlist_cache = EmptyDict
    /\ _cache_expiry = None
    /\ op = "__init__"
    /\ arg = None
    /\ ret = None
    /\ calculated = FALSE
    /\ before = None
    /\ threads = None

ResolveOnce == op = "__init__" /\ \E t \in ResolveInstants : determine_active_playlist(t)

IsActiveOnce ==
    /\ op = "__init__"
    /\ playlists # <<>>
    /\ \E current_time \in QueryTimes : Playlist_is_active(1, current_time)

ResolveRejected ==
    /\ op \in {"__init__", "determine_active_playlist"}
    /\ \E value \in NotDatetimes : determine_active_playlist_rejected(value)

ResolveTimeOfDay ==
    /\ op \in {"__init__", "determine_active_playlist"}
    /\ \E t \in TimesOfDay : determine_active_playlist_time(t)

NextResolve ==
    \/ ResolveOnce
    \/ IsActiveOnce
    \/ ResolveRejected
    \/ ResolveTimeOfDay

SpecResolve == InitResolve /\ [][NextResolve]_vars

----------------------------------------------------------------------------
(* Tie-break of resolution, checked under SpecResolve *)

\* the manager's playlists in every order they could be stored in
StoredOrders ==
    {[k \in 1..Len(playlists) |-> playlists[f[k]]] : f \in Permutations(1..Len(playlists))}

\* the answer r names a playlist, and no qualifying playlist whose window is as
\* long as that playlist's has a smaller name
SmallestNameAmongTied(r, t) ==
    /\ r # None
    /\ LET chosen == playlists[Deref(r[1])]
       IN  \A i \in Qualifying(t) :
               WindowMinutes(playlists[i]) = WindowMinutes(chosen) =>
                   ~NameLT(playlists[i].name, chosen.name)

\* C11: when two or more playlists qualify, the playlist resolution computes
\* has the smallest name among the qualifying playlists of its priority, in
\* whatever order the manager stores its playlists, and that is what a
\* determine_active_playlist call that ran the computation returned.
C11_TieBrokenByName ==
    /\ \A t \in ResolveInstants : \A order \in StoredOrders :
           Cardinality(Qualifying(t)) >= 2 =>
               SmallestNameAmongTied(_calculate_active_playlist(order, t), t)
    /\ (op = "determine_active_playlist" /\ calculated /\ Cardinality(Qualifying(arg)) >= 2)
           => SmallestNameAmongTied(ret, arg)

\* "Beta" is stored before "Alpha", both qualify with the same window, and the
\* call returned "Alpha"
C11_Witness ==
    /\ op = "determine_active_playlist"
    /\ calculated
    /\ Len(playlists) = 2
    /\ playlists[1].name = "Beta"
    /\ playlists[2].name = "Alpha"
    /\ Qualifying(arg) = {1, 2}
    /\ WindowMinutes(playlists[1]) = WindowMinutes(playlists[2])
    /\ ret # None
    /\ Returned.name = "Alpha"

----------------------------------------------------------------------------
(* The refresh policy on its own: one plugin instance, with any policy and *)
(* any record of its latest refresh, asked once whether it is due.         *)

Intervals == {0, 60, 3600, 86400}
Schedules == {0, 1200, 2359}
RefreshPolicies ==
    {[k \in {} |-> 0]}
        \cup {[interval |-> i] : i \in Intervals}
        \cup {[scheduled |-> s] : s \in Schedules}
        \cup {[interval |-> i, scheduled |-> s] : i \in Intervals, s \in Schedules}
RefreshDays == 0..2
RefreshInstants ==
    {d * OneDay + t : d \in RefreshDays,
                      t \in {At(0, 0, 0), At(11, 59, 59), At(12, 0, 0), At(12, 0, 30),
                              At(12, 1, 0), At(23, 59, 0)}}

\* plugin.should_refresh(current_time) on the j-th plugin of the i-th playlist
PluginInstance_should_refresh(i, j, current_time) ==
    /\ op' = "should_refresh"
    /\ arg' = current_time
    /\ ret' = Some(should_refresh(playlists[i].plugins[j], current_time))
    /\ calculated' = FALSE
    /\ before' = None
    /\ UNCHANGED threads
    /\ UNCHANGED <<playlists, _active_playlist_cache, _cache_expiry>>

\* PlaylistManager.should_refresh(latest, interval, current_time) with the record
\* and the interval of the j-th plugin of the i-th playlist
PlaylistManager_should_refresh_call(i, j, current_time) ==
    LET plugin == playlists[i].plugins[j]
    IN  /\ "interval" \in DOMAIN plugin.refresh
        /\ op' = "PlaylistManager.should_refresh"
        /\ arg' = current_time
        /\ ret' = Some(PlaylistManager_should_refresh(get_latest_refresh_dt(plugin),
                                                      plugin.refresh.interval, current_time))
        /\ calculated' = FALSE
        /\ before' = None
        /\ UNCHANGED threads
        /\ UNCHANGED <<playlists, _active_playlist_cache, _cache_expiry>>

\* the clock does not run backwards: a recorded refresh is not later than the
\* time the question is asked at
InitRefresh ==
    /\ \E policy \in RefreshPolicies, latest \in {None} \cup {Some(t) : t \in RefreshInstants} :
           LET data == [plugin_id |-> "clock", name |-> "A", plugin_settings |-> "s0",
                        refresh |-> policy, latest_refresh_time |-> latest]
           IN  playlists =
                   <<[Playlist(1, "Default", DEFAULT_PLAYLIST_START, DEFAULT_PLAYLIST_END)
                        EXCEPT !.plugins = <<PluginInstance_from_dict(data)>>]>>
    /\ _active_playlist_cache = EmptyDict
    /\ _cache_expiry = None
    /\ op = "__init__"
    /\ arg \in RefreshInstants
    /\ playlists[1].plugins[1].latest_refresh_time # None
           => playlists[1].plugins[1].latest_refresh_time[1] <= arg
    /\ ret = None
    /\ calculated = FALSE
    /\ before = None
    /\ threads = None

ShouldRefresh == op = "__init__" /\ PluginInstance_should_refresh(1, 1, arg)

ManagerShouldRefresh == op = "__init__" /\ PlaylistManager_should_refresh_call(1, 1, arg)

NextRefresh ==
    \/ ShouldRefresh
    \/ ManagerShouldRefresh

SpecRefresh == InitRefresh /\ [][NextRefresh]_vars

----------------------------------------------------------------------------
(* Properties of the refresh policy, checked under SpecRefresh *)

\* the plugin instance asked, its policy and its recorded refresh
Unit == playlists[1].plugins[1]
Policy == DOMAIN Unit.refresh
LastRefresh == Unit.latest_refresh_time

\* C12: a plugin instance with no recorded refresh is due at every time,
\* with an interval, a scheduled time, both or neither.
C12_NoRecordAlwaysDue ==
    (op = "should_refresh" /\ LastRefresh = None) => ret = Some(TRUE)

\* asked with neither an interval nor a scheduled time and no record: due
C12_Witness ==
    /\ op = "should_refresh"
    /\ LastRefresh = None
    /\ Policy = {}
    /\ ret = Some(TRUE)

\* C13: a plugin instance with a recorded refresh and only an interval is due
\* at time c exactly when c minus the recorded time is at least the interval,
\* for every interval from 0 up; the manager's static should_refresh likewise.
C13_IntervalDueExactly ==
    (/\ op \in {"should_refresh", "PlaylistManager.should_refresh"}
     /\ LastRefresh # None
     /\ Policy = {"interval"})
    => (ret = Some(TRUE) <=> arg - LastRefresh[1] >= Unit.refresh.interval)

\* the occurrences of the daily time "HH:MM" on the days of the model
Occurrences(scheduled) ==
    {d * OneDay + strptime_seconds(scheduled) : d \in RefreshDays}

\* C14: a plugin instance with a recorded refresh and only a scheduled time
\* is due at time c only if some occurrence of the scheduled time lies after
\* the recorded refresh and at or before c.
C14_ScheduledDueOnlyIfCrossed ==
    (/\ op = "should_refresh"
     /\ LastRefresh # None
     /\ Policy = {"scheduled"}
     /\ ret = Some(TRUE))
    => \E occurrence \in Occurrences(Unit.refresh.scheduled) :
           LastRefresh[1] < occurrence /\ occurrence <= arg

----------------------------------------------------------------------------
(* The cursor of one playlist: the default playlist followed by any calls  *)
(* of add_plugin, delete_plugin, get_next_plugin, find_plugin_to_refresh.  *)

\* per name, a plugin that was never refreshed and one refreshed at 12:15
CursorUnitArgs ==
    {[plugin_id |-> "clock", name |-> n, plugin_settings |-> "s0",
      refresh |-> [interval |-> 3600]] : n \in UnitNames}
        \cup {[plugin_id |-> "clock", name |-> n, plugin_settings |-> "s0",
               refresh |-> [interval |-> 3600],
               latest_refresh_time |-> Some(At(12, 15, 0))] : n \in UnitNames}

\* playlist.get_next_plugin() on the i-th playlist
Playlist_get_next_plugin(i) ==
    LET done == get_next_plugin(playlists[i])
    IN  /\ playlists' = [playlists EXCEPT ![i] = done.self]
        /\ op' = "get_next_plugin"
        /\ arg' = [playlist |-> i]
        /\ ret' = done.ret
        /\ calculated' = FALSE
        /\ before' = playlists[i].current_plugin_index
        /\ UNCHANGED threads
        /\ UNCHANGED <<_active_playlist_cache, _cache_expiry>>

AddCursorUnit == \E d \in CursorUnitArgs : Playlist_add_plugin(1, d)

GetNextPlugin == Playlist_get_next_plugin(1)

NextCursor ==
    \/ AddCursorUnit
    \/ DeleteUnit
    \/ GetNextPlugin
    \/ FindPluginToRefresh

SpecCursor == InitPlaylist /\ [][NextCursor]_vars

----------------------------------------------------------------------------
(* Properties of the cursor, checked under SpecCursor *)

\* C15: after any sequence of add_plugin, delete_plugin, get_next_plugin and
\* find_plugin_to_refresh calls on a playlist, current_plugin_index is None or
\* an index of the plugin list: 0 <= current_plugin_index < len(plugins).
C15_CursorAbsentOrValid ==
    LET cursor == playlists[1].current_plugin_index
    IN  cursor = None \/ (0 <= cursor[1] /\ cursor[1] < Len(playlists[1].plugins))

\* a call that ended in an exception
HasRaised(outcome) == Len(outcome) = 2

\* C23: get_next_plugin raises nothing, on an empty playlist either; on a
\* playlist of n >= 1 plugins it sets current_plugin_index to 0 if it was None
\* and to (current_plugin_index + 1) mod n otherwise, and returns the plugin
\* at the new index (so that n calls in a row return every plugin once).
C23_GetNextPluginNeverFails ==
    op = "get_next_plugin" =>
        LET n == Len(Polled.plugins)
            advanced == IF before = None THEN 0 ELSE (before[1] + 1) % n
        IN  /\ ~HasRaised(ret)
            /\ n >= 1 => (Polled.current_plugin_index = Some(advanced) /\ ret = Some(advanced))

\* what holds of C23: the advance on a playlist that has plugins
GetNextPluginAdvances ==
    (op = "get_next_plugin" /\ Polled.plugins # <<>>) =>
        LET n == Len(Polled.plugins)
            advanced == IF before = None THEN 0 ELSE (before[1] + 1) % n
        IN  /\ ~HasRaised(ret)
            /\ Polled.current_plugin_index = Some(advanced)
            /\ ret = Some(advanced)

----------------------------------------------------------------------------
(* Properties of the manager's editing operations, checked under Spec *)

\* C16: after any sequence of add_playlist, update_playlist (renames
\* included) and delete_playlist calls, no two playlists of the manager have
\* the same name.
C16_PlaylistNamesUnique ==
    \A i, j \in 1..Len(playlists) : playlists[i].name = playlists[j].name => i = j

\* C18: update_playlist, delete_playlist and add_plugin_to_playlist called
\* with the name of no playlist, and update_plugin and delete_plugin called
\* with the plugin_id and name of no plugin, return False - a value the call
\* never returns when it succeeds - and leave the playlists, their plugins and
\* their cursors as they were.
C18_NotFoundFailsAndChangesNothing ==
    [][/\ \A o \in NameArgs, n \in NameArgs, w \in WindowArgs :
             (/\ op' = "update_playlist"
              /\ update_playlist(o, n, w[1], w[2])
              /\ get_playlist(o) = 0)
                 => (ret' = Some(FALSE) /\ playlists' = playlists)
       /\ \A n \in NameArgs :
             (/\ op' = "delete_playlist"
              /\ delete_playlist(n)
              /\ get_playlist(n) = 0)
                 => (ret' = Some(FALSE) /\ playlists' = playlists)
       /\ \A n \in NameArgs, d \in PluginDataArgs :
             (/\ op' = "add_plugin_to_playlist"
              /\ add_plugin_to_playlist(n, d)
              /\ get_playlist(n) = 0)
                 => (ret' = Some(FALSE) /\ playlists' = playlists)
       /\ \A i \in 1..Len(playlists), id \in PluginIds, n \in InstanceNames, d \in UpdatedDataArgs :
             (/\ op' = "update_plugin"
              /\ Playlist_update_plugin(i, id, n, d)
              /\ find_plugin(playlists[i], id, n) = 0)
                 => (ret' = Some(FALSE) /\ playlists' = playlists)
       /\ \A i \in 1..Len(playlists), id \in PluginIds, n \in InstanceNames :
             (/\ op' = "delete_plugin"
              /\ Playlist_delete_plugin(i, id, n)
              /\ find_plugin(playlists[i], id, n) = 0)
                 => (ret' = Some(FALSE) /\ playlists' = playlists)]_vars

----------------------------------------------------------------------------
(* The plugin list of one playlist: the default playlist followed by any   *)
(* calls of add_plugin, update_plugin and delete_plugin; update_plugin     *)
(* passes any attribute to PluginInstance.update, plugin_id and name too.  *)

KeyIds == {"clock", "weather"}
KeyNames == {"A", "B"}
KeyUnitArgs ==
    {[plugin_id |-> i, name |-> n, plugin_settings |-> "s0", refresh |-> [interval |-> 3600]] :
        i \in KeyIds, n \in KeyNames}
KeyUpdateArgs ==
    {[settings |-> "s1"]}
        \cup {[name |-> n] : n \in KeyNames}
        \cup {[plugin_id |-> i] : i \in KeyIds}

AddKeyUnit == \E d \in KeyUnitArgs : Playlist_add_plugin(1, d)

UpdateKeyUnit ==
    \E i \in KeyIds, n \in KeyNames, d \in KeyUpdateArgs : Playlist_update_plugin(1, i, n, d)

DeleteKeyUnit == \E i \in KeyIds, n \in KeyNames : Playlist_delete_plugin(1, i, n)

NextUnits ==
    \/ AddKeyUnit
    \/ UpdateKeyUnit
    \/ DeleteKeyUnit

SpecUnits == InitPlaylist /\ [][NextUnits]_vars

----------------------------------------------------------------------------
(* Properties of the plugin list, checked under SpecUnits *)

\* C17: after any sequence of add_plugin, update_plugin and delete_plugin
\* calls on a playlist, no two of its plugins have the same plugin_id and the
\* same name.
C17_UnitKeysUnique ==
    \A i, j \in 1..Len(playlists[1].plugins) :
        (/\ playlists[1].plugins[i].plugin_id = playlists[1].plugins[j].plugin_id
         /\ playlists[1].plugins[i].name = playlists[1].plugins[j].name) => i = j

\* the other half of C17: add_plugin with a plugin_id and name the playlist
\* already holds returns False and leaves the playlist as it was
AddExistingPairRefused ==
    [][\A d \in KeyUnitArgs :
          (/\ op' = "add_plugin"
           /\ Playlist_add_plugin(1, d)
           /\ find_plugin(playlists[1], d.plugin_id, d.name) # 0)
              => (ret' = Some(FALSE) /\ playlists' = playlists)]_vars

----------------------------------------------------------------------------
(* Malformed times and values that are no datetime, checked under          *)
(* SpecResolve                                                              *)

\* "HH:MM" with HH from 00 to 23 and MM from 00 to 59
Parseable(s) == s \in MinutesOfDay
WellFormedWindow(p) ==
    Parseable(p.start_time) /\ (p.end_time = DEFAULT_PLAYLIST_END \/ Parseable(p.end_time))

\* C19: is_active returns False when the time asked about, the start or the
\* end of the window is no parseable "HH:MM"; determine_active_playlist never
\* returns a playlist whose window is malformed, returns a playlist whenever
\* a playlist with a well-formed window qualifies, and returns what it
\* returns with the malformed playlists taken out of the list.
C19_MalformedTimesFailClosed ==
    /\ op = "is_active" =>
           ((~Parseable(arg) \/ ~WellFormedWindow(playlists[1])) => ret = Some(FALSE))
    /\ op = "determine_active_playlist" =>
           /\ ret # None => WellFormedWindow(Returned)
           /\ (\E i \in Qualifying(arg) : WellFormedWindow(playlists[i])) => ret # None
           /\ ret = _calculate_active_playlist(SelectSeq(playlists, WellFormedWindow), arg)

\* a playlist with the window "25:00"-"12:01" and a plugin is stored first, a
\* playlist with a well-formed window qualifies, and the call returned the latter
C19_Witness ==
    /\ op = "determine_active_playlist"
    /\ Len(playlists) = 2
    /\ playlists[1].start_time = 2500
    /\ playlists[1].plugins # <<>>
    /\ WellFormedWindow(playlists[2])
    /\ Qualifying(arg) = {2}
    /\ ret = Some(playlists[2].id)

\* C20: determine_active_playlist called with a value that is no datetime -
\* None, a str, a datetime.time - returns None, raising nothing, and leaves
\* the cached entry and the cache expiry as they were.
C20_NotADatetimeReturnsNoneCacheKept ==
    [][op' = "determine_active_playlist(not a datetime)" =>
          /\ ret' = None
          /\ _active_playlist_cache' = _active_playlist_cache
          /\ _cache_expiry' = _cache_expiry]_vars

\* what holds of C20: a call with None or with a str returns None and leaves
\* the cache as it was
RejectedCallChangesNothing ==
    [][\A value \in NotDatetimes :
          (op' = "determine_active_playlist(not a datetime)" /\ arg' = value) =>
              /\ ret' = None
              /\ _active_playlist_cache' = _active_playlist_cache
              /\ _cache_expiry' = _cache_expiry]_vars

----------------------------------------------------------------------------
(* to_dict and from_dict: a manager holding any list of playlists, written *)
(* out with to_dict and built again with from_dict.                        *)

PluginInstance_to_dict(plugin) ==
    [plugin_id |-> plugin.plugin_id,
     name |-> plugin.name,
     plugin_settings |-> plugin.settings,
     refresh |-> plugin.refresh,
     latest_refresh_time |-> plugin.latest_refresh_time]

Playlist_to_dict(p) ==
    [name |-> p.name,
     start_time |-> p.start_time,
     end_time |-> p.end_time,
     plugins |-> [k \in 1..Len(p.plugins) |-> PluginInstance_to_dict(p.plugins[k])],
     current_plugin_index |-> p.current_plugin_index]

\* from_dict that does not hand current_plugin_index to the constructor
Playlist_from_dict_cursor_lost(id, data) ==
    [Playlist(id, data.name, data.start_time, data.end_time) EXCEPT
        !.plugins = [k \in 1..Len(data.plugins) |-> PluginInstance_from_dict(data.plugins[k])]]

\* Playlist.from_dict; the constructor runs PluginInstance.from_dict on every
\* entry of plugins.  id is the number of the object created.
Playlist_from_dict(id, data) ==
    [Playlist(id, data.name, data.start_time, data.end_time) EXCEPT
        !.plugins = [k \in 1..Len(data.plugins) |-> PluginInstance_from_dict(data.plugins[k])],
        !.current_plugin_index = IF "current_plugin_index" \in DOMAIN data
                                 THEN data.current_plugin_index
                                 ELSE None]

PlaylistManager_to_dict ==
    [playlists |-> [k \in 1..Len(playlists) |-> Playlist_to_dict(playlists[k])]]

\* the playlists of PlaylistManager.from_dict(data)
PlaylistManager_from_dict(data) ==
    IF "playlists" \in DOMAIN data
    THEN [k \in 1..Len(data.playlists) |-> Playlist_from_dict(k, data.playlists[k])]
    ELSE <<>>

\* manager = PlaylistManager.from_dict(manager.to_dict()): the new manager
\* starts with an empty cache
from_dict_to_dict ==
    LET data == PlaylistManager_to_dict
    IN  /\ playlists' = PlaylistManager_from_dict(data)
        /\ _active_playlist_cache' = EmptyDict
        /\ _cache_expiry' = None
        /\ op' = "from_dict"
        /\ arg' = data
        /\ ret' = None
        /\ calculated' = FALSE
        /\ before' = None
        /\ UNCHANGED threads

\* a plugin never refreshed, one refreshed at 12:15 with a scheduled time and
\* other settings, one with both policies
StoredUnits ==
    <<PluginInstance_from_dict([plugin_id |-> "clock", name |-> "A", plugin_settings |-> "s0",
                                refresh |-> [interval |-> 3600]]),
      PluginInstance_from_dict([plugin_id |-> "weather", name |-> "B", plugin_settings |-> "s1",
                                refresh |-> [scheduled |-> 1200],
                                latest_refresh_time |-> Some(At(12, 15, 0))]),
      PluginInstance_from_dict([plugin_id |-> "clock", name |-> "C", plugin_settings |-> "s0",
                                refresh |-> [interval |-> 60, scheduled |-> 0],
                                latest_refresh_time |-> Some(OneDay + At(0, 0, 0))])>>

StoredUnitLists ==
    {<<>>, <<StoredUnits[1]>>, <<StoredUnits[2], StoredUnits[1]>>,
     <<StoredUnits[1], StoredUnits[2], StoredUnits[3]>>}

StoredCursors == {None, Some(0), Some(1)}

StoredPlaylists ==
    {[name |-> n, start_time |-> w[1], end_time |-> w[2], plugins |-> u,
      current_plugin_index |-> c] :
        n \in NameArgs, w \in WindowArgs, u \in StoredUnitLists, c \in StoredCursors}

InitStored ==
    /\ \E n \in 0..MaxPlaylists : \E made \in [1..n -> StoredPlaylists] :
           playlists =
               [k \in 1..n |->
                   [Playlist(k, made[k].name, made[k].start_time, made[k].end_time)
                       EXCEPT !.plugins = made[k].plugins,
                              !.current_plugin_index = made[k].current_plugin_index]]
    /\ _active_playlist_cache = EmptyDict
    /\ _cache_expiry = None
    /\ op = "__init__"
    /\ arg = None
    /\ ret = None
    /\ calculated = FALSE
    /\ before = None
    /\ threads = None

RoundTrip == op = "__init__" /\ from_dict_to_dict

NextStored == RoundTrip

SpecStored == InitStored /\ [][NextStored]_vars

----------------------------------------------------------------------------
(* Property of to_dict and from_dict, checked under SpecStored *)

SameUnit(u, v) ==
    /\ u.plugin_id = v.plugin_id
    /\ u.name = v.name
    /\ u.settings = v.settings
    /\ u.refresh = v.refresh
    /\ u.latest_refresh_time = v.latest_refresh_time

SamePlaylist(p, q) ==
    /\ p.name = q.name
    /\ p.start_time = q.start_time
    /\ p.end_time = q.end_time
    /\ p.current_plugin_index = q.current_plugin_index
    /\ Len(p.plugins) = Len(q.plugins)
    /\ \A k \in 1..Len(p.plugins) : SameUnit(p.plugins[k], q.plugins[k])

\* C21: the manager from_dict builds from to_dict's output holds the same
\* playlists in the same order, each with the same name, start, end and
\* cursor and with the same plugins in the same order (plugin_id, name,
\* settings, refresh, latest_refresh_time).
C21_RoundTrip ==
    [][op' = "from_dict" =>
          /\ Len(playlists') = Len(playlists)
          /\ \A k \in 1..Len(playlists) : SamePlaylist(playlists[k], playlists'[k])]_vars

\* two playlists were written and read back, the first with three plugins
\* and the cursor on the second of them
C21_Witness ==
    /\ op = "from_dict"
    /\ Len(playlists) = 2
    /\ Len(playlists[1].plugins) = 3
    /\ playlists[1].current_plugin_index = Some(1)
    /\ playlists[1].plugins[2].latest_refresh_time = Some(At(12, 15, 0))
    /\ playlists[2].plugins = <<>>
    /\ Len(arg.playlists) = 2

----------------------------------------------------------------------------
(* Two threads on one manager, with no lock between them (model.py takes   *)
(* none): one runs determine_active_playlist, the other one structural     *)
(* edit.  A step is one statement of the method; the computation of line   *)
(* 118 and the change an edit makes to the playlists are taken as one step *)
(* each.  When both have returned, the caller may resolve once more.       *)

Sequential == <<op, arg, ret, calculated, before>>

\* lines 105-116: the cache is looked up
resolver_lookup ==
    LET current_datetime == threads.current_datetime
        cache_key == strftime_HM(current_datetime)
    IN  /\ threads.resolver = "called"
        /\ IF cache_hit(current_datetime, cache_key)
           THEN threads' = [threads EXCEPT !.resolver = "returned",
                                           !.returned = _active_playlist_cache[cache_key]]
           ELSE threads' = [threads EXCEPT !.resolver = "missed"]
        /\ UNCHANGED <<playlists, _active_playlist_cache, _cache_expiry, Sequential>>

\* line 118: active_playlist = self._calculate_active_playlist(current_datetime)
resolver_calculate ==
    /\ threads.resolver = "missed"
    /\ threads' = [threads EXCEPT
           !.resolver = "calculated",
           !.active_playlist = _calculate_active_playlist(playlists, threads.current_datetime)]
    /\ UNCHANGED <<playlists, _active_playlist_cache, _cache_expiry, Sequential>>

\* line 121: self._active_playlist_cache = {cache_key: active_playlist}
resolver_store ==
    /\ threads.resolver = "calculated"
    /\ _active_playlist_cache' =
           [k \in {strftime_HM(threads.current_datetime)} |-> threads.active_playlist]
    /\ threads' = [threads EXCEPT !.resolver = "stored"]
    /\ UNCHANGED <<playlists, _cache_expiry, Sequential>>

\* lines 122-124: self._cache_expiry = current_datetime + timedelta(minutes=1); return
resolver_set_expiry ==
    /\ threads.resolver = "stored"
    /\ _cache_expiry' = Some(threads.current_datetime + 60)
    /\ threads' = [threads EXCEPT !.resolver = "returned", !.returned = threads.active_playlist]
    /\ UNCHANGED <<playlists, _active_playlist_cache, Sequential>>

\* delete_playlist(name), line 219: the list is replaced
editor_delete_playlist(name) ==
    /\ threads.editor = "called"
    /\ playlists' = SelectSeq(playlists, LAMBDA p : p.name # name)
    /\ threads' = [threads EXCEPT !.editor = "edited"]
    /\ UNCHANGED <<_active_playlist_cache, _cache_expiry, Sequential>>

\* update_playlist(old_name, new_name, start_time, end_time), lines 207-211;
\* lines 214-215 when no playlist has the name
editor_update_playlist(old_name, new_name, start_time, end_time) ==
    LET i == get_playlist(old_name)
    IN  /\ threads.editor = "called"
        /\ IF i # 0
           THEN /\ playlists' = [playlists EXCEPT ![i].name = new_name,
                                                  ![i].start_time = start_time,
                                                  ![i].end_time = end_time]
                /\ threads' = [threads EXCEPT !.editor = "edited"]
           ELSE /\ UNCHANGED playlists
                /\ threads' = [threads EXCEPT !.editor = "returned"]
        /\ UNCHANGED <<_active_playlist_cache, _cache_expiry, Sequential>>

\* add_plugin_to_playlist(playlist_name, plugin_data), lines 186-188; line 193
\* when nothing was added
editor_add_plugin_to_playlist(playlist_name, plugin_data) ==
    LET i == get_playlist(playlist_name)
        added == add_plugin(playlists[i], plugin_data)
    IN  /\ threads.editor = "called"
        /\ i # 0 => Len(playlists[i].plugins) < MaxPlugins
        /\ IF i # 0 /\ added.ret
           THEN /\ playlists' = [playlists EXCEPT ![i] = added.self]
                /\ threads' = [threads EXCEPT !.editor = "edited"]
           ELSE /\ UNCHANGED playlists
                /\ threads' = [threads EXCEPT !.editor = "returned"]
        /\ UNCHANGED <<_active_playlist_cache, _cache_expiry, Sequential>>

\* invalidate_cache, line 176: self._active_playlist_cache = {}
editor_clear_cache ==
    /\ threads.editor = "edited"
    /\ _active_playlist_cache' = EmptyDict
    /\ threads' = [threads EXCEPT !.editor = "cleared"]
    /\ UNCHANGED <<playlists, _cache_expiry, Sequential>>

\* invalidate_cache, line 177: self._cache_expiry = None; the edit returns
editor_clear_expiry ==
    /\ threads.editor = "cleared"
    /\ _cache_expiry' = None
    /\ threads' = [threads EXCEPT !.editor = "returned"]
    /\ UNCHANGED <<playlists, _active_playlist_cache, Sequential>>

\* playlists with a well-formed window, with a plugin or without
ThreadsPlaylists ==
    {[name |-> n, start_time |-> w[1], end_time |-> w[2], plugins |-> u] :
        n \in NameArgs,
        w \in WindowArgs \cup {<<DEFAULT_PLAYLIST_START, DEFAULT_PLAYLIST_END>>},
        u \in {<<>>} \cup {<<PluginInstance_from_dict(d)>> : d \in PluginDataArgs}}

\* plugin data of a second plugin, which every playlist of the model accepts
ThreadsPluginData ==
    [plugin_id |-> "clock", name |-> "B", plugin_settings |-> "s0", refresh |-> [interval |-> 3600]]

InitThreads ==
    /\ \E n \in 0..MaxPlaylists : \E made \in [1..n -> ThreadsPlaylists] :
           playlists =
               [k \in 1..n |->
                   [Playlist(k, made[k].name, made[k].start_time, made[k].end_time)
                       EXCEPT !.plugins = made[k].plugins]]
    /\ _active_playlist_cache = EmptyDict
    /\ _cache_expiry = None
    /\ op = "__init__"
    /\ arg = None
    /\ ret = None
    /\ calculated = FALSE
    /\ before = None
    /\ threads = [resolver |-> "called", editor |-> "called",
                  current_datetime |-> At(12, 0, 0),
                  active_playlist |-> None, returned |-> None]

ResolverLookup == resolver_lookup

ResolverCalculate == resolver_calculate

ResolverStore == resolver_store

ResolverSetExpiry == resolver_set_expiry

EditorDeletePlaylist == \E n \in NameArgs : editor_delete_playlist(n)

EditorUpdatePlaylist ==
    \E o \in NameArgs, n \in NameArgs, w \in WindowArgs : editor_update_playlist(o, n, w[1], w[2])

EditorAddPlugin == \E n \in NameArgs : editor_add_plugin_to_playlist(n, ThreadsPluginData)

EditorClearCache == editor_clear_cache

EditorClearExpiry == editor_clear_expiry

\* both threads have returned: the caller resolves again, within the minute
ResolveAfterwards ==
    /\ threads.resolver = "returned"
    /\ threads.editor = "returned"
    /\ op = "__init__"
    /\ \E t \in {At(12, 0, 0), At(12, 0, 30)} : determine_active_playlist(t)

NextThreads ==
    \/ ResolverLookup
    \/ ResolverCalculate
    \/ ResolverStore
    \/ ResolverSetExpiry
    \/ EditorDeletePlaylist
    \/ EditorUpdatePlaylist
    \/ EditorAddPlugin
    \/ EditorClearCache
    \/ EditorClearExpiry
    \/ ResolveAfterwards

SpecThreads == InitThreads /\ [][NextThreads]_vars

----------------------------------------------------------------------------
(* Property of the two threads, checked under SpecThreads *)

\* a datetime of the model's day 0 whose "HH:MM" is the cache key
DatetimeOfKey(cache_key) == At(cache_key \div 100, cache_key % 100, 0)

\* C24: when determine_active_playlist and a structural edit run as two
\* threads, then in every interleaving of their steps, once both have
\* returned, the cache holds for its key what the computation gives on the
\* edited playlists, and a determine_active_playlist call that follows in the
\* same minute returns what the computation gives on the edited playlists.
C24_NoStaleCacheAfterConcurrentEdit ==
    (threads.resolver = "returned" /\ threads.editor = "returned") =>
        /\ op = "__init__" =>
               \A cache_key \in DOMAIN _active_playlist_cache :
                   _active_playlist_cache[cache_key]
                       = _calculate_active_playlist(playlists, DatetimeOfKey(cache_key))
        /\ op = "determine_active_playlist" =>
               ret = _calculate_active_playlist(playlists, arg)

----------------------------------------------------------------------------
(* The refresh loop on one playlist: the caller asks the playlist for the  *)
(* plugin to refresh and, when one is returned, records the refresh on it. *)
(* The caller's code is not in model.py; recording a refresh is the write  *)
(* latest_refresh_time := t that spec.md describes.                        *)

\* on refresh completion the caller writes the refresh time onto the plugin
\* find_plugin_to_refresh returned
record_refresh ==
    LET i == arg.playlist
        index == ret[1]
    IN  /\ playlists' = [playlists EXCEPT
               ![i].plugins[index + 1].latest_refresh_time = Some(arg.current_dt)]
        /\ op' = "record_refresh"
        /\ calculated' = FALSE
        /\ before' = None
        /\ UNCHANGED threads
        /\ UNCHANGED <<arg, ret, _active_playlist_cache, _cache_expiry>>

\* playlists of two or more plugins, as loaded from a saved configuration
LoopNames == <<"A", "B", "C", "D">>
LoopSizes == 2..MaxPlugins
LoopUnits ==
    [refresh : RefreshArgs, latest_refresh_time : {None, Some(At(12, 15, 0))}]

InitLoop ==
    /\ \E n \in LoopSizes : \E made \in [1..n -> LoopUnits] : \E cursor \in {None, Some(0)} :
           playlists =
               <<[Playlist(1, "Default", DEFAULT_PLAYLIST_START, DEFAULT_PLAYLIST_END) EXCEPT
                     !.plugins =
                         [k \in 1..n |->
                             [plugin_id |-> "clock", name |-> LoopNames[k], settings |-> "s0",
                              refresh |-> made[k].refresh,
                              latest_refresh_time |-> made[k].latest_refresh_time]],
                     !.current_plugin_index = cursor]>>
    /\ _active_playlist_cache = EmptyDict
    /\ _cache_expiry = None
    /\ op = "__init__"
    /\ arg = None
    /\ ret = None
    /\ calculated = FALSE
    /\ before = None
    /\ threads = None

\* the next call of the loop, made when the last call's result has been dealt
\* with, at a time that is not before the last call's
LoopFind ==
    /\ op = "find_plugin_to_refresh" => ret = None
    /\ \E t \in PollInstants, g \in BOOLEAN :
           /\ arg # None => t >= arg.current_dt
           /\ Playlist_find_plugin_to_refresh(1, t, g)

LoopRecord ==
    /\ op = "find_plugin_to_refresh"
    /\ ret # None
    /\ record_refresh

NextLoop ==
    \/ LoopFind
    \/ LoopRecord

\* the loop runs for ever: a call that can be made is made
SpecLoop ==
    /\ InitLoop
    /\ [][NextLoop]_vars
    /\ WF_vars(LoopFind)
    /\ WF_vars(LoopRecord)

----------------------------------------------------------------------------
(* Property of the refresh loop, checked under SpecLoop *)

\* every plugin of the polled playlist is due at the time of the call
EveryUnitDue ==
    \A j \in 1..Len(Polled.plugins) : should_refresh(Polled.plugins[j], arg.current_dt)

\* C25: if every find_plugin_to_refresh call on a playlist of two or more
\* plugins is made with the global override true, or at a time when every
\* plugin is due, and a refresh is recorded on each returned plugin, then
\* every plugin of the playlist is eventually returned.
C25_EveryUnitEventuallyReturned ==
    [](op = "find_plugin_to_refresh" => (arg.global_should_refresh \/ EveryUnitDue))
        => \A k \in 0..(MaxPlugins - 1) :
               <>(\/ k >= Len(playlists[1].plugins)
                  \/ op = "find_plugin_to_refresh" /\ ret = Some(k))

----------------------------------------------------------------------------
(* Property of a recorded refresh, checked under SpecRefresh *)

\* the policy asked has an interval above 0, a scheduled time, or both
PositiveIntervalOrScheduled ==
    \/ "interval" \in Policy /\ Unit.refresh.interval > 0
    \/ "scheduled" \in Policy

\* the interval of the policy has elapsed since the recorded refresh
IntervalElapsed ==
    /\ "interval" \in Policy
    /\ Unit.refresh.interval > 0
    /\ arg - LastRefresh[1] >= Unit.refresh.interval

\* an occurrence of the scheduled time lies after the recorded refresh and at
\* or before the time asked
ScheduledCrossed ==
    /\ "scheduled" \in Policy
    /\ \E occurrence \in Occurrences(Unit.refresh.scheduled) :
           LastRefresh[1] < occurrence /\ occurrence <= arg

\* C26: a plugin instance whose refresh was recorded at time t, with a policy
\* of an interval above 0 and/or a scheduled time, is not due at t itself, and
\* at a later time it is due only if its interval has elapsed since t or its
\* scheduled time has been crossed since t.
C26_NoImmediateReRefresh ==
    (/\ op = "should_refresh"
     /\ LastRefresh # None
     /\ PositiveIntervalOrScheduled)
    => /\ LastRefresh[1] = arg => ret = Some(FALSE)
       /\ ret = Some(TRUE) => (IntervalElapsed \/ ScheduledCrossed)

\* with an interval above 0 and no scheduled time the property holds
NoImmediateReRefreshByInterval ==
    (/\ op = "should_refresh"
     /\ LastRefresh # None
     /\ Policy = {"interval"}
     /\ Unit.refresh.interval > 0)
    => /\ LastRefresh[1] = arg => ret = Some(FALSE)
       /\ ret = Some(TRUE) => IntervalElapsed

====
